---- MODULE Spec2Model ----
(***************************************************************************)
(* Camera-navigation controller of XRInterface (components/Controls):      *)
(* key handlers that maintain keysRef, the useFrame callback that turns    *)
(* the held keys into damped velocities and applies them to the camera     *)
(* position and the orbit target, and the effects that attach and detach   *)
(* the window listeners and set the orbit target.                          *)
(*                                                                         *)
(* Numbers are fixed point.  Velocities and the rotation velocity are in   *)
(* units of 1/VScale (per second), unit vectors in 1/UScale, positions in  *)
(* 1/PScale, angles in 1/AScale radians, times in milliseconds.  Every     *)
(* arithmetic result is rounded to the nearest representable value, ties   *)
(* to even, as IEEE-754 arithmetic does.                                   *)
(***************************************************************************)
EXTENDS Integers, Sequences, FiniteSets, TLC

\* ------------------------------------------------------------------ scales
VScale == 100000
UScale == 10000
PScale == 10000
AScale == 100000

\* ------------------------------------------------------------------ bounds
MaxFrames == 2
MaxOps == 2
MaxHoldFrames == 260
MaxComboFrames == 160
MaxTurnFrames == 130
MaxCoastFrames == 340
MaxAppOps == 5
MaxKeyOps == 4

\* ------------------------------------------------------- program constants
MovementSpeed == 3
SprintFactor == 2
LerpPercent == 5
RotationLerpPercent == 5
TargetLerpPercent == 10
RotationSpeed == 150000
RotationDeadband == 1000
VelocityDeadband == 100
MaxDeltaTime == 50

\* ------------------------------------------------------------- arithmetic
Abs(a) == IF a < 0 THEN -a ELSE a

Min(a, b) == IF a < b THEN a ELSE b

\* a / b rounded to the nearest integer, ties to even (b > 0)
RoundDiv(a, b) ==
  LET q == a \div b
      r == a % b
  IN  IF 2 * r < b THEN q
      ELSE IF 2 * r > b THEN q + 1
      ELSE IF q % 2 = 0 THEN q ELSE q + 1

RECURSIVE IsqrtIter(_, _, _)
IsqrtIter(n, lo, hi) ==
  IF lo >= hi THEN lo
  ELSE LET mid == (lo + hi + 1) \div 2
       IN  IF mid * mid <= n THEN IsqrtIter(n, mid, hi)
           ELSE IsqrtIter(n, lo, mid - 1)

\* floor of the square root of n, for 0 <= n < 46340^2
Isqrt(n) == IsqrtIter(n, 0, 46339)

Zero3 == <<0, 0, 0>>

VecAdd(a, b) == <<a[1] + b[1], a[2] + b[2], a[3] + b[3]>>

VecSub(a, b) == <<a[1] - b[1], a[2] - b[2], a[3] - b[3]>>

LengthSq(v) == v[1] * v[1] + v[2] * v[2] + v[3] * v[3]

\* THREE.Vector3.normalize: divideScalar(length() || 1), on a vector whose
\* components are in 1/UScale; the result is a unit vector in 1/UScale
Normalize(v) ==
  LET len == Isqrt(LengthSq(v))
  IN  IF len = 0 THEN v
      ELSE <<RoundDiv(v[1] * UScale, len),
             RoundDiv(v[2] * UScale, len),
             RoundDiv(v[3] * UScale, len)>>

\* mutant of MathLerp: the interpolation factor is halved
MathLerpSlow(x, y, t) == RoundDiv((200 - t) * x + t * y, 200)

\* THREE.MathUtils.lerp(x, y, t) = (1 - t) * x + t * y, t in percent
MathLerp(x, y, t) == RoundDiv((100 - t) * x + t * y, 100)

\* THREE.Vector3.lerp(v, alpha): this += (v - this) * alpha, alpha in percent
VecLerp(a, b, t) ==
  <<a[1] + RoundDiv((b[1] - a[1]) * t, 100),
    a[2] + RoundDiv((b[2] - a[2]) * t, 100),
    a[3] + RoundDiv((b[3] - a[3]) * t, 100)>>

\* sine and cosine of an angle a (|a| <= 0.075 rad, in 1/AScale rad), in
\* 1/AScale, by their Taylor polynomials
SinA(a) == a - RoundDiv(RoundDiv(a * a, AScale) * a, 6 * AScale)

CosA(a) ==
  LET a2 == RoundDiv(a * a, AScale)
  IN  AScale - RoundDiv(a2, 2) + RoundDiv(a2 * a2, 24 * AScale)

\* THREE.Vector3.applyAxisAngle(new Vector3(0, 1, 0), a)
ApplyAxisAngleY(v, a) ==
  LET s == SinA(a)
      c == CosA(a) - AScale
  IN  <<v[1] + RoundDiv(v[1] * c + v[3] * s, AScale),
        v[2],
        v[3] + RoundDiv(v[3] * c - v[1] * s, AScale)>>

\* ------------------------------------------------------------------ inputs
\* KeyboardEvent.code values dispatched on window; KeyX is not recognized
\* by the handlers
KeyCodes ==
  {"KeyW", "KeyS", "KeyA", "KeyD", "KeyQ", "KeyE", "Space",
   "ShiftLeft", "ShiftRight", "AltLeft", "AltRight", "KeyX"}

\* e.target.tagName of the element a key event originates from
TagNames == {"INPUT", "TEXTAREA", "BODY"}

\* real time between two frame callbacks, in ms (a 60 Hz frame and a
\* two-second stall)
FrameGaps == {16, 2000}

\* sampled camera orientations (camera.quaternion): 1 looks along -Z, level;
\* 2 looks along -Z pitched down; 3 is yawed to the right, level
Orientations == {1, 2, 3}

\* (0, 0, -1).applyQuaternion(camera.quaternion), in 1/UScale
CameraForward(q) ==
  CASE q = 1 -> <<0, 0, -10000>>
    [] q = 2 -> <<0, -6000, -8000>>
    [] q = 3 -> <<6000, 0, -8000>>

\* (1, 0, 0).applyQuaternion(camera.quaternion), in 1/UScale
CameraRight(q) ==
  CASE q = 1 -> <<10000, 0, 0>>
    [] q = 2 -> <<10000, 0, 0>>
    [] q = 3 -> <<8000, 0, 6000>>

\* the target prop App passes to Controls, [0, 1.5, 0], in 1/PScale
TargetProp == <<0, 15000, 0>>

\* the camera position the Canvas is created with, [0, 1.6, 4]
InitialCameraPosition == <<0, 16000, 40000>>

\* ------------------------------------------------------------------- state
VARIABLES
  mounted,            \* the Controls component is mounted
  enableMovement,     \* prop enableMovement of the last render
  enableOrbit,        \* prop enableOrbit of the last render
  orbitAttached,      \* orbitRef.current is an OrbitControls instance
  orbitTarget,        \* orbitRef.current.target
  keydownListeners,   \* number of keydown handlers registered on window
  keyupListeners,     \* number of keyup handlers registered on window
  keysRef,            \* keysRef.current
  rotationVelocity,   \* rotationVelocity.current
  lastFrameTime,      \* lastFrameTime.current
  direction,          \* persistentVectors.direction
  velocity,           \* persistentVectors.velocity
  moveVector,         \* persistentVectors.moveVector
  cameraPosition,     \* camera.position
  cameraQuaternion,   \* camera.quaternion (an element of Orientations)
  now,                \* performance.now()
  event,              \* the event or callback dispatched last
  frame,              \* number of frame callbacks invoked so far
  ops,                \* number of renders, mounts and key events so far
  idleTicks,          \* consecutive executed ticks with a zero direction
  rigStale,           \* orbitRef.current.target written since the last update()
  updateCalls,        \* update() calls made by the callback or effect run last
  isInVR,             \* App state isInVR
  debugSettings,      \* App state debugSettings
  panelSettings,      \* DebugPanel state settings
  heldKeys            \* codes of the physical keys that are down

vars ==
  <<mounted, enableMovement, enableOrbit, orbitAttached, orbitTarget,
    keydownListeners, keyupListeners, keysRef, rotationVelocity,
    lastFrameTime, direction, velocity, moveVector, cameraPosition,
    cameraQuaternion, now, event, frame, ops, idleTicks, rigStale,
    updateCalls, isInVR, debugSettings, panelSettings, heldKeys>>

\* the state of Controls, the camera and the clock
controlsVars ==
  <<mounted, enableMovement, enableOrbit, orbitAttached, orbitTarget,
    keydownListeners, keyupListeners, keysRef, rotationVelocity,
    lastFrameTime, direction, velocity, moveVector, cameraPosition,
    cameraQuaternion, now, event, frame, ops, idleTicks, rigStale,
    updateCalls, heldKeys>>

\* the state of App and of its DebugPanel
appVars == <<isInVR, debugSettings, panelSettings>>

Flags ==
  {"forward", "backward", "left", "right", "up", "down",
   "turnLeft", "turnRight", "sprint"}

MoveFlags == {"forward", "backward", "left", "right", "up", "down"}

NoKeys == [f \in Flags |-> FALSE]

Dispatched(type, code, tag, prevented) ==
  [type |-> type, code |-> code, tag |-> tag, defaultPrevented |-> prevented]

NoEvent == Dispatched("none", "", "", FALSE)

\* ------------------------------------------------------------ key handlers
IsTextField(tag) == tag = "INPUT" \/ tag = "TEXTAREA"

\* the keysRef flag the switch statement of both handlers selects for e.code
FlagOf(code) ==
  CASE code = "KeyW" -> "forward"
    [] code = "KeyS" -> "backward"
    [] code = "KeyA" -> "left"
    [] code = "KeyD" -> "right"
    [] code = "KeyQ" -> "turnLeft"
    [] code = "KeyE" -> "turnRight"
    [] code = "Space" -> "up"
    [] code \in {"ShiftLeft", "ShiftRight"} -> "down"
    [] code \in {"AltLeft", "AltRight"} -> "sprint"
    [] OTHER -> "none"

\* mutant of HandleKeyDown: the Alt case falls into a movement case
HandleKeyDownSprintMoves(k, code, tag) ==
  IF IsTextField(tag) THEN k
  ELSE IF FlagOf(code) = "none" THEN k
  ELSE IF FlagOf(code) = "sprint" THEN [k EXCEPT !["sprint"] = TRUE, !["forward"] = TRUE]
  ELSE [k EXCEPT ![FlagOf(code)] = TRUE]

\* mutant of HandleKeyDown: the text-field check is missing
HandleKeyDownUnguarded(k, code, tag) ==
  IF FlagOf(code) = "none" THEN k
  ELSE [k EXCEPT ![FlagOf(code)] = TRUE]

\* keysRef.current after handleKeyDown(e)
HandleKeyDown(k, code, tag) ==
  IF IsTextField(tag) THEN k
  ELSE IF FlagOf(code) = "none" THEN k
  ELSE [k EXCEPT ![FlagOf(code)] = TRUE]

\* mutant of KeyDownPreventsDefault: every recognized key is suppressed
KeyDownPreventsDefaultAll(code, tag) ==
  /\ ~IsTextField(tag)
  /\ FlagOf(code) # "none"

\* whether handleKeyDown(e) calls e.preventDefault()
KeyDownPreventsDefault(code, tag) ==
  /\ ~IsTextField(tag)
  /\ code \in {"Space", "AltLeft", "AltRight"}

\* mutant of HandleKeyUp: the text-field check is missing
HandleKeyUpUnguarded(k, code, tag) ==
  IF FlagOf(code) = "none" THEN k
  ELSE [k EXCEPT ![FlagOf(code)] = FALSE]

\* mutant of HandleKeyUp: a keyup of any recognized key clears every flag
HandleKeyUpClearsAll(k, code, tag) ==
  IF IsTextField(tag) THEN k
  ELSE IF FlagOf(code) = "none" THEN k
  ELSE [f \in DOMAIN k |-> FALSE]

\* keysRef.current after handleKeyUp(e)
HandleKeyUp(k, code, tag) ==
  IF IsTextField(tag) THEN k
  ELSE IF FlagOf(code) = "none" THEN k
  ELSE [k EXCEPT ![FlagOf(code)] = FALSE]

\* ------------------------------------------------------------- frame tick
\* mutant of TickRuns: the callback returns only when both tests fail
TickRunsEitherFlag == enableMovement \/ orbitAttached

\* mutant of TickRuns: the rig handle is not checked
TickRunsWithoutRig == enableMovement

\* the guard of the useFrame callback: it returns at once unless this holds
TickRuns == enableMovement /\ orbitAttached

\* mutant of DeltaTime: the elapsed time is not capped
DeltaTimeUncapped(t, last) == t - last

\* deltaTime, in ms: Math.min(0.05, (now - lastFrameTime.current) / 1000)
DeltaTime(t, last) == Min(MaxDeltaTime, t - last)

\* mutant of CurrentSpeed: sprint is ignored
CurrentSpeedNoSprint(k) == MovementSpeed

\* currentSpeed, in units per second
CurrentSpeed(k) ==
  IF k["sprint"] THEN MovementSpeed * SprintFactor ELSE MovementSpeed

\* mutant of RawDirection: opposing keys cancel
RawDirectionCancelling(k) ==
  <<(IF k["right"] THEN UScale ELSE 0) - (IF k["left"] THEN UScale ELSE 0),
    (IF k["up"] THEN UScale ELSE 0) - (IF k["down"] THEN UScale ELSE 0),
    (IF k["backward"] THEN UScale ELSE 0) - (IF k["forward"] THEN UScale ELSE 0)>>

\* direction after direction.set(0, 0, 0) and the six if statements
RawDirection(k) ==
  <<IF k["right"] THEN UScale ELSE IF k["left"] THEN -UScale ELSE 0,
    IF k["down"] THEN -UScale ELSE IF k["up"] THEN UScale ELSE 0,
    IF k["backward"] THEN UScale ELSE IF k["forward"] THEN -UScale ELSE 0>>

\* mutant of Direction: the direction is not normalized
DirectionRaw(k) == RawDirection(k)

\* direction after the conditional normalize()
Direction(k) ==
  IF LengthSq(RawDirection(k)) > 0 THEN Normalize(RawDirection(k))
  ELSE RawDirection(k)

\* targetRotationVelocity: 1, -1 or 0
TargetRotationVelocity(k) ==
  IF k["turnRight"] THEN -1 ELSE IF k["turnLeft"] THEN 1 ELSE 0

\* mutant of NewRotationVelocity: the rotation lerp is slower than 0.05
NewRotationVelocitySlow(rv, k) ==
  MathLerpSlow(rv, TargetRotationVelocity(k) * RotationSpeed, RotationLerpPercent)

\* rotationVelocity.current after the lerp toward targetRotationVelocity * 1.5
NewRotationVelocity(rv, k) ==
  MathLerp(rv, TargetRotationVelocity(k) * RotationSpeed, RotationLerpPercent)

\* rotationAmount = rotationVelocity.current * deltaTime, in 1/AScale rad
RotationAmount(rv, dt) == RoundDiv(rv * dt, 1000 * (VScale \div AScale))

\* mutant of RotateTarget: the target jumps to the rotated point
RotateTargetUnsmoothed(tgt, cam, rv, dt) ==
  IF Abs(rv) > RotationDeadband
  THEN VecAdd(cam, ApplyAxisAngleY(VecSub(tgt, cam), RotationAmount(rv, dt)))
  ELSE tgt

\* mutant of RotateTarget: the deadband test is inverted
RotateTargetBelowDeadband(tgt, cam, rv, dt) ==
  IF Abs(rv) < RotationDeadband
  THEN LET targetRelative == ApplyAxisAngleY(VecSub(tgt, cam), RotationAmount(rv, dt))
           targetVec == VecAdd(cam, targetRelative)
       IN  VecLerp(tgt, targetVec, TargetLerpPercent)
  ELSE tgt

\* orbitRef.current.target after the rotation step
RotateTarget(tgt, cam, rv, dt) ==
  IF Abs(rv) > RotationDeadband
  THEN LET targetRelative == ApplyAxisAngleY(VecSub(tgt, cam), RotationAmount(rv, dt))
           targetVec == VecAdd(cam, targetRelative)
       IN  VecLerp(tgt, targetVec, TargetLerpPercent)
  ELSE tgt

\* mutant of NewVelocity: the velocity is assigned its target
NewVelocityAssigned(v, d, speed) ==
  [i \in 1..3 |-> d[i] * speed * (VScale \div UScale)]

\* mutant of NewVelocity: 5% of the target is added to the undamped velocity
NewVelocityUndamped(v, d, speed) ==
  [i \in 1..3 |-> v[i] + RoundDiv(LerpPercent * d[i] * speed * (VScale \div UScale), 100)]

\* velocity after the three lerps toward direction * currentSpeed
NewVelocity(v, d, speed) ==
  [i \in 1..3 |-> MathLerp(v[i], d[i] * speed * (VScale \div UScale), LerpPercent)]

\* mutant of Significant: the movement block runs for any non-zero velocity
SignificantNonZero(v) == v # Zero3

\* whether the movement block runs
Significant(v) ==
  \/ Abs(v[1]) > VelocityDeadband
  \/ Abs(v[2]) > VelocityDeadband
  \/ Abs(v[3]) > VelocityDeadband

\* a velocity component times deltaTime, in 1/PScale
Displacement(vc, dt) == RoundDiv(vc * dt, 1000 * (VScale \div PScale))

\* Vector3.addScaledVector(u, s) for a unit vector u in 1/UScale
AddScaledVector(m, u, s) ==
  <<m[1] + RoundDiv(u[1] * s, UScale),
    m[2] + RoundDiv(u[2] * s, UScale),
    m[3] + RoundDiv(u[3] * s, UScale)>>

\* mutant of Level: the vertical component is kept
LevelUnprojected(u) == Normalize(u)

\* forward or right after .y = 0 and normalize()
Level(u) == Normalize(<<u[1], 0, u[3]>>)

\* moveVector after the movement block (which runs when Significant(v))
NewMoveVector(v, q, dt) ==
  LET m0 == Zero3
      m1 == IF Abs(v[3]) > VelocityDeadband
            THEN AddScaledVector(m0, Level(CameraForward(q)), Displacement(-v[3], dt))
            ELSE m0
      m2 == IF Abs(v[1]) > VelocityDeadband
            THEN AddScaledVector(m1, Level(CameraRight(q)), Displacement(v[1], dt))
            ELSE m1
  IN  IF Abs(v[2]) > VelocityDeadband
      THEN <<m2[1], m2[2] + Displacement(v[2], dt), m2[3]>>
      ELSE m2

\* mutant of TranslateTarget: the target is moved only part of the way
TranslateTargetSmoothed(tgt, mv) == VecLerp(tgt, VecAdd(tgt, mv), TargetLerpPercent)

\* orbitRef.current.target after orbitRef.current.target.add(moveVector)
TranslateTarget(tgt, mv) == VecAdd(tgt, mv)

\* the autoRotate prop the component gives its OrbitControls
AutoRotate == FALSE

\* mutant of RigUpdateRuns: the guard is inverted
RigUpdateSkipped == AutoRotate

\* the guard of both update() calls of the callback: !orbitRef.current.autoRotate
RigUpdateRuns == ~AutoRotate

\* whether the target is stale after a step of the callback: a step that runs
\* writes the target and then calls update() under its guard
StaleAfterStep(stale, stepRuns) == IF stepRuns THEN ~RigUpdateRuns ELSE stale

\* update() calls of a step of the callback
UpdatesOfStep(stepRuns) == IF stepRuns /\ RigUpdateRuns THEN 1 ELSE 0

\* mutant of QuaternionAfterTick: the tick turns the camera itself
QuaternionAfterTickTurned(q) == IF q = 3 THEN 1 ELSE q + 1

\* camera.quaternion after the callback, which reads it for forward and right
\* and never assigns it
QuaternionAfterTick(q) == q

\* the renderer draws a frame gap ms after the previous one and, when the
\* component is mounted, invokes the useFrame callback
Tick(gap) ==
  /\ now' = now + gap
  /\ frame' = frame + 1
  /\ event' = Dispatched("frame", "", "", FALSE)
  /\ UNCHANGED <<mounted, enableMovement, enableOrbit, orbitAttached,
                 keydownListeners, keyupListeners, keysRef, ops, heldKeys>>
  /\ UNCHANGED appVars
  /\ IF mounted /\ TickRuns
     THEN LET dt == DeltaTime(now', lastFrameTime)
              d == Direction(keysRef)
              rv == NewRotationVelocity(rotationVelocity, keysRef)
              rotated == RotateTarget(orbitTarget, cameraPosition, rv, dt)
              v == NewVelocity(velocity, d, CurrentSpeed(keysRef))
              mv == NewMoveVector(v, cameraQuaternion, dt)
          IN  /\ lastFrameTime' = now'
              /\ direction' = d
              /\ rotationVelocity' = rv
              /\ velocity' = v
              /\ idleTicks' = IF d = Zero3 THEN idleTicks + 1 ELSE 0
              /\ cameraQuaternion' = QuaternionAfterTick(cameraQuaternion)
              /\ rigStale' = StaleAfterStep(StaleAfterStep(rigStale, Abs(rv) > RotationDeadband),
                                            Significant(v))
              /\ updateCalls' = UpdatesOfStep(Abs(rv) > RotationDeadband)
                                  + UpdatesOfStep(Significant(v))
              /\ IF Significant(v)
                 THEN /\ moveVector' = mv
                      /\ cameraPosition' = VecAdd(cameraPosition, mv)
                      /\ orbitTarget' = TranslateTarget(rotated, mv)
                 ELSE /\ orbitTarget' = rotated
                      /\ UNCHANGED <<moveVector, cameraPosition>>
     ELSE /\ updateCalls' = 0
          /\ UNCHANGED <<lastFrameTime, direction, rotationVelocity, velocity,
                         moveVector, cameraPosition, orbitTarget, idleTicks,
                         cameraQuaternion, rigStale>>

\* --------------------------------------------------------------- key events
\* mutant of KeyDown: the handler also stops the motion
KeyDownStopsMotion(code, tag) ==
  /\ event' = Dispatched("keydown", code, tag,
                         keydownListeners > 0 /\ KeyDownPreventsDefault(code, tag))
  /\ heldKeys' = heldKeys \cup {code}
  /\ keysRef' = IF keydownListeners > 0 THEN HandleKeyDown(keysRef, code, tag)
                ELSE keysRef
  /\ velocity' = Zero3
  /\ ops' = ops + 1
  /\ UNCHANGED <<mounted, enableMovement, enableOrbit, orbitAttached, orbitTarget,
                 keydownListeners, keyupListeners, rotationVelocity,
                 lastFrameTime, direction, moveVector, cameraPosition,
                 cameraQuaternion, now, frame, idleTicks, rigStale>>
  /\ updateCalls' = 0
  /\ UNCHANGED appVars

\* a keydown event is dispatched on window
KeyDown(code, tag) ==
  /\ event' = Dispatched("keydown", code, tag,
                         keydownListeners > 0 /\ KeyDownPreventsDefault(code, tag))
  /\ heldKeys' = heldKeys \cup {code}
  /\ keysRef' = IF keydownListeners > 0 THEN HandleKeyDown(keysRef, code, tag)
                ELSE keysRef
  /\ ops' = ops + 1
  /\ UNCHANGED <<mounted, enableMovement, enableOrbit, orbitAttached, orbitTarget,
                 keydownListeners, keyupListeners, rotationVelocity,
                 lastFrameTime, direction, velocity, moveVector, cameraPosition,
                 cameraQuaternion, now, frame, idleTicks, rigStale>>
  /\ updateCalls' = 0
  /\ UNCHANGED appVars

\* a keyup event is dispatched on window
KeyUp(code, tag) ==
  /\ event' = Dispatched("keyup", code, tag, FALSE)
  /\ heldKeys' = heldKeys \ {code}
  /\ keysRef' = IF keyupListeners > 0 THEN HandleKeyUp(keysRef, code, tag)
                ELSE keysRef
  /\ ops' = ops + 1
  /\ UNCHANGED <<mounted, enableMovement, enableOrbit, orbitAttached, orbitTarget,
                 keydownListeners, keyupListeners, rotationVelocity,
                 lastFrameTime, direction, velocity, moveVector, cameraPosition,
                 cameraQuaternion, now, frame, idleTicks, rigStale>>
  /\ updateCalls' = 0
  /\ UNCHANGED appVars

\* ---------------------------------------------------------------- lifecycle
\* mutant of AfterListenerEffect: the effect does not return early
AfterListenerEffectUnguarded(n, em) == n + 1

\* listeners on window after the listener effect ran with enableMovement = em
AfterListenerEffect(n, em) == IF em THEN n + 1 ELSE n

\* mutant of AfterListenerCleanup: the cleanup removes nothing
AfterListenerCleanupLeaks(n, em) == n

\* listeners on window after the cleanup of the listener effect that ran with
\* enableMovement = em (an effect that returned early has no cleanup)
AfterListenerCleanup(n, em) == IF em THEN n - 1 ELSE n

\* the component is mounted with the given props: the refs and persistent
\* vectors are created, the OrbitControls element is rendered when eo, and
\* both effects run
Mount(em, eo) ==
  /\ ~mounted
  /\ mounted' = TRUE
  /\ enableMovement' = em
  /\ enableOrbit' = eo
  /\ keysRef' = NoKeys
  /\ rotationVelocity' = 0
  /\ lastFrameTime' = now
  /\ direction' = Zero3
  /\ velocity' = Zero3
  /\ moveVector' = Zero3
  /\ orbitAttached' = eo
  /\ orbitTarget' = IF eo THEN TargetProp ELSE orbitTarget
  /\ keydownListeners' = AfterListenerEffect(keydownListeners, em)
  /\ keyupListeners' = AfterListenerEffect(keyupListeners, em)
  /\ event' = Dispatched("mount", "", "", FALSE)
  /\ ops' = ops + 1
  /\ idleTicks' = 0
  /\ rigStale' = FALSE
  /\ updateCalls' = IF eo THEN 1 ELSE 0
  /\ UNCHANGED <<cameraPosition, cameraQuaternion, now, frame, heldKeys>>
  /\ UNCHANGED appVars

\* the component is unmounted: the effect cleanup runs and the ref is cleared
Unmount ==
  /\ mounted
  /\ mounted' = FALSE
  /\ orbitAttached' = FALSE
  /\ keydownListeners' = AfterListenerCleanup(keydownListeners, enableMovement)
  /\ keyupListeners' = AfterListenerCleanup(keyupListeners, enableMovement)
  /\ event' = Dispatched("unmount", "", "", FALSE)
  /\ ops' = ops + 1
  /\ UNCHANGED <<enableMovement, enableOrbit, orbitTarget, keysRef,
                 rotationVelocity, lastFrameTime, direction, velocity,
                 moveVector, cameraPosition, cameraQuaternion, now, frame,
                 idleTicks, rigStale, heldKeys>>
  /\ updateCalls' = 0
  /\ UNCHANGED appVars

\* App re-renders and passes the props em and eo and a new target array: the
\* listener effect re-runs when enableMovement changed, the OrbitControls
\* element is mounted or unmounted when enableOrbit changed, and the target
\* effect re-runs
Render(em, eo) ==
  /\ mounted
  /\ enableMovement' = em
  /\ enableOrbit' = eo
  /\ keydownListeners' =
       IF em = enableMovement THEN keydownListeners
       ELSE AfterListenerEffect(AfterListenerCleanup(keydownListeners, enableMovement), em)
  /\ keyupListeners' =
       IF em = enableMovement THEN keyupListeners
       ELSE AfterListenerEffect(AfterListenerCleanup(keyupListeners, enableMovement), em)
  /\ orbitAttached' = eo
  /\ orbitTarget' = IF eo THEN TargetProp ELSE orbitTarget
  /\ event' = Dispatched("render", "", "", FALSE)
  /\ ops' = ops + 1
  /\ rigStale' = FALSE
  /\ updateCalls' = IF eo THEN 1 ELSE 0
  /\ UNCHANGED <<mounted, keysRef, rotationVelocity, lastFrameTime, direction,
                 velocity, moveVector, cameraPosition, cameraQuaternion, now,
                 frame, idleTicks, heldKeys>>

\* a user gesture on the orbit rig turns the camera
OrbitGesture(q) ==
  /\ mounted
  /\ orbitAttached
  /\ q # cameraQuaternion
  /\ cameraQuaternion' = q
  /\ event' = Dispatched("gesture", "", "", FALSE)
  /\ ops' = ops + 1
  /\ UNCHANGED <<mounted, enableMovement, enableOrbit, orbitAttached, orbitTarget,
                 keydownListeners, keyupListeners, keysRef, rotationVelocity,
                 lastFrameTime, direction, velocity, moveVector, cameraPosition,
                 now, frame, idleTicks, rigStale, heldKeys>>
  /\ updateCalls' = 0
  /\ UNCHANGED appVars

\* ---------------------------------------------------------------------- App
\* panelScale values of the range input, in tenths
PanelScales == {10, 15}

\* useState initial value of debugSettings in App; a field the object lacks
\* (undefined) is recorded as FALSE, which is how every reader tests it
InitialDebugSettings ==
  [showGrid |-> TRUE, panelScale |-> 10, orbitControlsEnabled |-> TRUE,
   showParticles |-> TRUE, movementEnabled |-> TRUE]

\* useState initial value of settings in DebugPanel
InitialPanelSettings ==
  [showGrid |-> TRUE, panelScale |-> 10, orbitControlsEnabled |-> TRUE,
   showParticles |-> TRUE]

\* the values an input of the DebugPanel can report for a setting
PanelValues(setting) ==
  IF setting = "panelScale" THEN PanelScales ELSE BOOLEAN

\* newSettings of DebugPanel.handleChange: { ...settings, [setting]: value }
NewPanelSettings(settings, setting, value) == [settings EXCEPT ![setting] = value]

\* debugSettings after handleSettingsChange(newSettings): the object is
\* replaced, and newSettings has no movementEnabled
AfterSettingsChange(newSettings) ==
  [showGrid |-> newSettings.showGrid, panelScale |-> newSettings.panelScale,
   orbitControlsEnabled |-> newSettings.orbitControlsEnabled,
   showParticles |-> newSettings.showParticles, movementEnabled |-> FALSE]

\* debugSettings after the updater xrSessionChanged passes to setDebugSettings
AfterSessionStart(current) ==
  [current EXCEPT !["showParticles"] = FALSE, !["showGrid"] = FALSE]

\* App re-renders and passes Controls the props of the settings ds
AppRender(ds) == Render(ds.movementEnabled, ds.orbitControlsEnabled)

\* a sessionstart event is dispatched on document
SessionStart ==
  /\ isInVR' = TRUE
  /\ debugSettings' = AfterSessionStart(debugSettings)
  /\ UNCHANGED panelSettings
  /\ AppRender(debugSettings')

\* a sessionend event is dispatched on document; App re-renders when isInVR
\* changed
SessionEnd ==
  /\ isInVR' = FALSE
  /\ UNCHANGED <<debugSettings, panelSettings>>
  /\ IF isInVR THEN AppRender(debugSettings) ELSE UNCHANGED controlsVars

\* an input of the DebugPanel changes: handleChange(setting, value)
PanelChange(setting, value) ==
  /\ value # panelSettings[setting]
  /\ panelSettings' = NewPanelSettings(panelSettings, setting, value)
  /\ debugSettings' = AfterSettingsChange(panelSettings')
  /\ UNCHANGED isInVR
  /\ AppRender(debugSettings')

\* --------------------------------------------------------- specifications
\* App has rendered Controls with its initial debug settings
Init ==
  /\ mounted = TRUE
  /\ enableMovement = TRUE
  /\ enableOrbit = TRUE
  /\ orbitAttached = TRUE
  /\ orbitTarget = TargetProp
  /\ keydownListeners = 1
  /\ keyupListeners = 1
  /\ keysRef = NoKeys
  /\ rotationVelocity = 0
  /\ lastFrameTime = 0
  /\ direction = Zero3
  /\ velocity = Zero3
  /\ moveVector = Zero3
  /\ cameraPosition = InitialCameraPosition
  /\ cameraQuaternion \in Orientations
  /\ now = 0
  /\ event = NoEvent
  /\ frame = 0
  /\ ops = 0
  /\ idleTicks = 0
  /\ rigStale = FALSE
  /\ updateCalls = 1
  /\ heldKeys = {}
  /\ isInVR = FALSE
  /\ debugSettings = InitialDebugSettings
  /\ panelSettings = InitialPanelSettings

Frame == frame < MaxFrames /\ \E gap \in FrameGaps : Tick(gap)

PressKey == ops < MaxOps /\ \E code \in KeyCodes, tag \in TagNames : KeyDown(code, tag)

ReleaseKey == ops < MaxOps /\ \E code \in KeyCodes, tag \in TagNames : KeyUp(code, tag)

DoMount == ops < MaxOps /\ \E em \in BOOLEAN, eo \in BOOLEAN : Mount(em, eo)

DoUnmount == ops < MaxOps /\ Unmount

DoRender ==
  /\ ops < MaxOps
  /\ \E em \in BOOLEAN, eo \in BOOLEAN : Render(em, eo)
  /\ UNCHANGED appVars

DoGesture == ops < MaxOps /\ \E q \in Orientations : OrbitGesture(q)

Next ==
  \/ Frame
  \/ PressKey
  \/ ReleaseKey
  \/ DoMount
  \/ DoUnmount
  \/ DoRender
  \/ DoGesture

Spec == Init /\ [][Next]_vars

\* --- a key held from rest and then released, at a steady 60 Hz frame rate
HoldCodes == {"KeyW", "KeyS", "KeyA", "KeyD", "Space", "ShiftLeft", "AltLeft"}

MoveHeld(k) == \E f \in MoveFlags : k[f]

\* before the first frame: at most one movement key, and optionally sprint
HoldPress ==
  /\ frame = 0
  /\ \E code \in HoldCodes :
       /\ ~keysRef[FlagOf(code)]
       /\ FlagOf(code) \in MoveFlags => ~MoveHeld(keysRef)
       /\ KeyDown(code, "BODY")

\* after the first frame: the held movement key is released
HoldRelease ==
  /\ frame > 0
  /\ \E code \in HoldCodes :
       /\ FlagOf(code) \in MoveFlags
       /\ keysRef[FlagOf(code)]
       /\ KeyUp(code, "BODY")

HoldTick == frame < MaxHoldFrames /\ Tick(16)

HoldInit == Init /\ cameraQuaternion = 3

HoldNext == HoldPress \/ HoldRelease \/ HoldTick

SpecHold == HoldInit /\ [][HoldNext]_vars

\* --- any combination of movement keys and sprint held from rest, never
\* released, at a steady 60 Hz frame rate
ComboCodes == {"KeyW", "KeyS", "KeyA", "KeyD", "Space", "ShiftLeft", "AltLeft"}

ComboPress ==
  /\ frame = 0
  /\ \E code \in ComboCodes :
       /\ ~keysRef[FlagOf(code)]
       /\ KeyDown(code, "BODY")

ComboTick == frame < MaxComboFrames /\ Tick(16)

ComboInit == Init /\ cameraQuaternion = 3

ComboNext == ComboPress \/ ComboTick

SpecCombo == ComboInit /\ [][ComboNext]_vars

\* --- yaw-left and ascend held together from rest and released together, at
\* a steady 60 Hz frame rate
TurnCodes == {"KeyQ", "Space"}

TurnPress ==
  /\ frame = 0
  /\ \E code \in TurnCodes :
       /\ ~keysRef[FlagOf(code)]
       /\ KeyDown(code, "BODY")

TurnRelease ==
  /\ frame > 0
  /\ \E code \in TurnCodes :
       /\ keysRef[FlagOf(code)]
       /\ KeyUp(code, "BODY")

\* frames are drawn while both keys are held or both are released
TurnTick ==
  /\ frame < MaxTurnFrames
  /\ keysRef["turnLeft"] = keysRef["up"]
  /\ Tick(16)

TurnInit == Init

TurnNext == TurnPress \/ TurnRelease \/ TurnTick

SpecTurn == TurnInit /\ [][TurnNext]_vars

\* --- forward and yaw-right held together from rest, with or without sprint,
\* and released together, at a steady 60 Hz frame rate
CoastCodes == {"KeyW", "KeyE", "AltLeft"}

CoastPress ==
  /\ frame = 0
  /\ \E code \in CoastCodes :
       /\ ~keysRef[FlagOf(code)]
       /\ KeyDown(code, "BODY")

\* the movement key and the yaw key are released; sprint stays as it is
CoastRelease ==
  /\ frame > 0
  /\ \E code \in CoastCodes \ {"AltLeft"} :
       /\ keysRef[FlagOf(code)]
       /\ KeyUp(code, "BODY")

\* frames are drawn while both keys are held or both are released
CoastTick ==
  /\ frame < MaxCoastFrames
  /\ keysRef["forward"] = keysRef["turnRight"]
  /\ Tick(16)

CoastInit == Init /\ cameraQuaternion = 3

CoastNext == CoastPress \/ CoastRelease \/ CoastTick

SpecCoast == CoastInit /\ [][CoastNext]_vars

\* --- App in development mode: XR session events and DebugPanel changes
AppSessionStart == ops < MaxAppOps /\ SessionStart

AppSessionEnd == ops < MaxAppOps /\ SessionEnd

AppPanelChange ==
  /\ ops < MaxAppOps
  /\ \E setting \in DOMAIN InitialPanelSettings :
       \E value \in PanelValues(setting) : PanelChange(setting, value)

AppInit == Init /\ cameraQuaternion = 1

AppNext == AppSessionStart \/ AppSessionEnd \/ AppPanelChange

SpecApp == AppInit /\ [][AppNext]_vars

\* --- the two Shift keys, the two Alt keys and Space pressed and released
\* in any order while the page body has the focus
PairCodes == {"ShiftLeft", "ShiftRight", "AltLeft", "AltRight", "Space"}

\* a key that is up goes down
PairPress ==
  /\ ops < MaxKeyOps
  /\ \E code \in PairCodes \ heldKeys : KeyDown(code, "BODY")

\* a key that is down goes up
PairReleaseKey ==
  /\ ops < MaxKeyOps
  /\ \E code \in PairCodes \cap heldKeys : KeyUp(code, "BODY")

PairInit == Init /\ cameraQuaternion = 1

PairNext == PairPress \/ PairReleaseKey

SpecPair == PairInit /\ [][PairNext]_vars

\* ================================================================== claims
\* a step in which the renderer invoked a frame callback
TickStep == frame' = frame + 1

\* a tick whose callback passed the guard and ran its body
ExecutedTickStep == TickStep /\ mounted /\ enableMovement /\ orbitAttached

\* new is old moved 5% of the way to tgt, to within half a unit of rounding
DampedStep(old, new, tgt) == Abs(100 * new - (95 * old + 5 * tgt)) <= 50

\* the velocity target of a tick: direction * currentSpeed, in 1/VScale
VelocityTarget(d, k, i) == d[i] * CurrentSpeed(k) * (VScale \div UScale)

\* C1: on every executed tick each velocity component and the rotation
\* velocity move 5% of the way from their old value to their target
\* (direction * speed, resp. yaw sign * 1.5), whatever the elapsed time of the
\* tick; so neither is assigned its target unless it already equals it
C1_DampedInterpolation ==
  [][ExecutedTickStep =>
       /\ \A i \in 1..3 :
            DampedStep(velocity[i], velocity'[i], VelocityTarget(direction', keysRef, i))
       /\ DampedStep(rotationVelocity, rotationVelocity',
                     TargetRotationVelocity(keysRef) * RotationSpeed)
       /\ \A i \in 1..3 :
            velocity'[i] = VelocityTarget(direction', keysRef, i) => velocity'[i] = velocity[i]
       /\ rotationVelocity' = TargetRotationVelocity(keysRef) * RotationSpeed
            => rotationVelocity' = rotationVelocity]_vars

\* C1 witness: a tick has run with a movement key and a yaw key held, and both
\* velocities are strictly between rest and their targets
C1_Witness ==
  /\ event.type = "frame"
  /\ direction # Zero3
  /\ \E i \in 1..3 :
       /\ velocity[i] # 0
       /\ Abs(velocity[i]) < Abs(VelocityTarget(direction, keysRef, i))
  /\ rotationVelocity # 0
  /\ Abs(rotationVelocity) < RotationSpeed

\* C2: an executed tick stamps lastFrameTime with the current time and moves
\* the camera and the orbit target by the amounts computed with an elapsed
\* time of min(50 ms, time since lastFrameTime); after a longer gap they are
\* the amounts of a 50 ms tick
C2_ClampedElapsedTime ==
  [][ExecutedTickStep =>
       LET gap == now' - lastFrameTime
           dt == IF gap > 50 THEN 50 ELSE gap
           mv == IF Significant(velocity')
                 THEN NewMoveVector(velocity', cameraQuaternion, dt)
                 ELSE Zero3
       IN  /\ lastFrameTime' = now'
           /\ cameraPosition' = VecAdd(cameraPosition, mv)
           /\ orbitTarget' =
                VecAdd(RotateTarget(orbitTarget, cameraPosition, rotationVelocity', dt), mv)]_vars

\* C2 witness: the first tick came after a two-second stall, with a movement
\* key and a yaw key held, and moved both the camera and the orbit target
C2_Witness ==
  /\ frame = 1
  /\ now = 2000
  /\ lastFrameTime = 2000
  /\ cameraPosition # InitialCameraPosition
  /\ rotationVelocity # 0
  /\ VecSub(orbitTarget, cameraPosition) # VecSub(TargetProp, InitialCameraPosition)

\* C3: a tick while enableMovement is false or the rig handle is not
\* attached changes none of velocity, rotationVelocity, camera position,
\* orbit target (nor lastFrameTime, direction, moveVector, keysRef)
C3_SkippedTickIsNoOp ==
  [][(TickStep /\ (~enableMovement \/ ~orbitAttached)) =>
       UNCHANGED <<velocity, rotationVelocity, cameraPosition, orbitTarget,
                   lastFrameTime, direction, moveVector, keysRef>>]_vars

\* C3 witness: a frame was drawn while the component was mounted with a
\* movement key flagged and the guard failing
C3_Witness ==
  /\ event.type = "frame"
  /\ mounted
  /\ ~enableMovement \/ ~orbitAttached
  /\ MoveHeld(keysRef)
  /\ velocity = Zero3
  /\ cameraPosition = InitialCameraPosition

\* a step in which a key event was dispatched
KeyDownStep == ops' = ops + 1 /\ event'.type = "keydown"

KeyUpStep == ops' = ops + 1 /\ event'.type = "keyup"

\* C4: a keydown from an INPUT or TEXTAREA changes no flag, whatever the key;
\* a keydown of a recognized key from another element, with the listeners
\* attached, sets that key's flag and changes no other
C4_KeyDownFocusGuard ==
  [][KeyDownStep =>
       /\ IsTextField(event'.tag) => keysRef' = keysRef
       /\ (~IsTextField(event'.tag) /\ FlagOf(event'.code) # "none"
           /\ mounted /\ enableMovement)
            => /\ keysRef'[FlagOf(event'.code)]
               /\ \A f \in Flags \ {FlagOf(event'.code)} : keysRef'[f] = keysRef[f]]_vars

\* C4 witness: a keydown of S from an INPUT left backward clear after a
\* keydown of W from the page body had set forward
C4_Witness ==
  /\ event = Dispatched("keydown", "KeyS", "INPUT", FALSE)
  /\ mounted /\ enableMovement
  /\ keysRef["forward"]
  /\ ~keysRef["backward"]

\* C5: a flag that is set is cleared only by a keyup of its own key, or when
\* the component has been torn down
C5_FlagHeldUntilKeyUp ==
  [][\A f \in Flags :
       (keysRef[f] /\ ~keysRef'[f]) =>
          \/ KeyUpStep /\ FlagOf(event'.code) = f
          \/ ~mounted]_vars

\* C5 witness: forward is still set after two ticks and the keyup of another key
C5_Witness ==
  /\ keysRef["forward"]
  /\ frame = 2
  /\ event.type = "keyup"
  /\ ~IsTextField(event.tag)
  /\ FlagOf(event.code) \notin {"none", "forward"}

\* C6: while the component is unmounted no listener is registered, and no
\* key event or frame changes keysRef, the velocities, the camera position or
\* the orbit target
C6_NoEffectAfterUnmount ==
  /\ [](~mounted => keydownListeners = 0 /\ keyupListeners = 0)
  /\ [][(~mounted /\ ~mounted') =>
          UNCHANGED <<keysRef, velocity, rotationVelocity, cameraPosition,
                      orbitTarget>>]_vars

\* C6 witness: a keydown of a recognized key from the page body was
\* dispatched after the unmount and set nothing
C6_Witness ==
  /\ ~mounted
  /\ event.type = "keydown"
  /\ event.tag = "BODY"
  /\ FlagOf(event.code) # "none"
  /\ keysRef = NoKeys

\* C7: when the listeners are detached while the component stays mounted
\* (enableMovement became false), every keysRef flag is reset to false
C7_ResetOnDetach ==
  [][(mounted' /\ keydownListeners > 0 /\ keydownListeners' = 0) =>
       keysRef' = NoKeys]_vars

\* C8: one keydown and one keyup handler are registered exactly when the
\* component is mounted with enableMovement true, none otherwise, and a key
\* event changes keysRef only then
C8_ListenersMatchLifecycle ==
  /\ [](/\ keydownListeners = (IF mounted /\ enableMovement THEN 1 ELSE 0)
        /\ keyupListeners = (IF mounted /\ enableMovement THEN 1 ELSE 0))
  /\ [][((KeyDownStep \/ KeyUpStep) /\ keysRef' # keysRef) =>
          mounted /\ enableMovement]_vars

\* C8 witness: the component was unmounted and mounted again with movement
\* enabled, and has its pair of handlers
C8_Witness ==
  /\ ops >= 2
  /\ event.type = "mount"
  /\ mounted /\ enableMovement
  /\ keydownListeners = 1
  /\ keyupListeners = 1

\* sum of the absolute components: the magnitude of a vector with at most one
\* non-zero component
AxisMagnitude(v) == Abs(v[1]) + Abs(v[2]) + Abs(v[3])

OneAxis(v) == Cardinality({i \in 1..3 : v[i] # 0}) <= 1

\* C9: with one movement key held from rest at constant speed, the velocity
\* lies on one axis, its magnitude never decreases from tick to tick, never
\* exceeds the current speed, and is within 0.1% of it after 150 ticks
C9_MonotoneNoOvershoot ==
  /\ [][(TickStep /\ MoveHeld(keysRef)) =>
          /\ OneAxis(velocity')
          /\ AxisMagnitude(velocity') >= AxisMagnitude(velocity)
          /\ AxisMagnitude(velocity') <= CurrentSpeed(keysRef) * VScale]_vars
  /\ []((MoveHeld(keysRef) /\ frame >= 150) =>
          1000 * (CurrentSpeed(keysRef) * VScale - AxisMagnitude(velocity))
            <= CurrentSpeed(keysRef) * VScale)

\* C9 witness: a movement key and sprint have been held for 200 ticks and
\* the velocity has grown close to, but not beyond, twice the base speed
C9_Witness ==
  /\ MoveHeld(keysRef)
  /\ keysRef["sprint"]
  /\ frame = 200
  /\ AxisMagnitude(velocity) > MovementSpeed * VScale
  /\ AxisMagnitude(velocity) < CurrentSpeed(keysRef) * VScale

C11_SprintDoubles ==
  /\ [][ExecutedTickStep =>
          \A i \in 1..3 :
            DampedStep(velocity[i], velocity'[i],
                       IF keysRef["sprint"]
                       THEN 2 * (direction'[i] * MovementSpeed * (VScale \div UScale))
                       ELSE direction'[i] * MovementSpeed * (VScale \div UScale))]_vars
  /\ [](frame >= 150 =>
          \A i \in 1..3 :
            IF keysRef["sprint"]
            THEN Abs(velocity[i] - 2 * (direction[i] * MovementSpeed * (VScale \div UScale)))
                   <= 2 * MovementSpeed * (VScale \div 1000)
            ELSE Abs(velocity[i] - direction[i] * MovementSpeed * (VScale \div UScale))
                   <= MovementSpeed * (VScale \div 1000))

\* C11 witness: forward and sprint have been held for 150 ticks and the
\* velocity is beyond 1.9 times the base speed
C11_Witness ==
  /\ frame >= 150
  /\ keysRef["sprint"]
  /\ keysRef["forward"]
  /\ direction = <<0, 0, -UScale>>
  /\ 10 * velocity[3] < -19 * MovementSpeed * VScale

\* the magnitude of a velocity, in thousandths of a unit per second
MagnitudeMilli(v) ==
  Isqrt(LengthSq(<<RoundDiv(v[1], VScale \div 1000),
                   RoundDiv(v[2], VScale \div 1000),
                   RoundDiv(v[3], VScale \div 1000)>>))

\* number of axes with a non-zero component
Axes(v) == Cardinality({i \in 1..3 : v[i] # 0})

\* C12: after every executed tick the direction is the zero vector when no
\* movement key is held and otherwise has length 1 (to within two units of
\* rounding); with keys held for 150 ticks the speed is within 0.5% of the
\* current speed whether one, two or three axes are active
C12_DirectionIsUnitOrZero ==
  /\ []((event.type = "frame" /\ frame >= 1) =>
          /\ direction = Zero3 <=> ~MoveHeld(keysRef)
          /\ direction # Zero3 =>
               /\ LengthSq(direction) >= (UScale - 2) * (UScale - 2)
               /\ LengthSq(direction) <= (UScale + 2) * (UScale + 2))
  /\ []((frame >= 150 /\ MoveHeld(keysRef)) =>
          200 * Abs(MagnitudeMilli(velocity) - 1000 * CurrentSpeed(keysRef))
            <= 1000 * CurrentSpeed(keysRef))

\* C12 witness: W, D and Space have been held for 150 ticks; all three
\* velocity components are non-zero and the speed is that of one axis
C12_Witness ==
  /\ frame >= 150
  /\ keysRef["forward"] /\ keysRef["right"] /\ keysRef["up"]
  /\ Axes(velocity) = 3
  /\ 200 * Abs(MagnitudeMilli(velocity) - 1000 * CurrentSpeed(keysRef))
       <= 1000 * CurrentSpeed(keysRef)

C14_WriteThenUpdate ==
  /\ [](~rigStale)
  /\ [][ExecutedTickStep =>
          updateCalls' = (IF Abs(rotationVelocity') > RotationDeadband THEN 1 ELSE 0)
                         + (IF Significant(velocity') THEN 1 ELSE 0)]_vars
  /\ [][(event'.type \in {"mount", "render"} /\ orbitAttached') => updateCalls' = 1]_vars
  /\ [][orbitTarget' # orbitTarget => updateCalls' >= 1]_vars

\* C14 witness: a tick ran both the rotation and the translation step, moved
\* the orbit target, and left the rig refreshed
C14_Witness ==
  /\ event.type = "frame"
  /\ Abs(rotationVelocity) > RotationDeadband
  /\ Significant(velocity)
  /\ orbitTarget # TargetProp
  /\ updateCalls = 2
  /\ ~rigStale

\* C15: a re-render of the mounted component that keeps the rig attached and
\* passes the same target coordinates leaves the orbit target as ticks have
\* moved it
C15_TargetSetOnlyOnMount ==
  [][(event'.type = "render" /\ orbitAttached /\ orbitAttached') =>
       orbitTarget' = orbitTarget]_vars

\* the horizontal part of the vector from the camera to the orbit target
\* turned about the vertical axis between the two positions
Turned(tgt0, cam0, tgt1, cam1) ==
  LET r0 == VecSub(tgt0, cam0)
      r1 == VecSub(tgt1, cam1)
  IN  r0[1] * r1[3] - r0[3] * r1[1] # 0

\* C16: the first tick from rest with Q and Space held turns the orbit
\* target about the vertical axis and raises the camera; once both are
\* released every tick brings rotationVelocity and velocity.y closer to zero
\* (until they stall within ten units of rounding); velocity.x and
\* velocity.z are zero throughout
C16_YawAndAscend ==
  /\ [][(TickStep /\ frame = 0 /\ keysRef["turnLeft"] /\ keysRef["up"]) =>
          /\ Turned(orbitTarget, cameraPosition, orbitTarget', cameraPosition')
          /\ cameraPosition'[2] > cameraPosition[2]]_vars
  /\ [][(TickStep /\ ~keysRef["turnLeft"] /\ ~keysRef["up"]) =>
          /\ Abs(rotationVelocity') <= Abs(rotationVelocity)
          /\ Abs(rotationVelocity) > 10 => Abs(rotationVelocity') < Abs(rotationVelocity)
          /\ Abs(velocity'[2]) <= Abs(velocity[2])
          /\ Abs(velocity[2]) > 10 => Abs(velocity'[2]) < Abs(velocity[2])]_vars
  /\ [](velocity[1] = 0 /\ velocity[3] = 0)

\* C16 witness: both keys were held for some ticks and released; a tick later
\* the target has been turned, the camera raised, and both velocities are
\* non-zero and decaying
C16_Witness ==
  /\ idleTicks >= 1
  /\ ~keysRef["turnLeft"] /\ ~keysRef["up"]
  /\ Turned(TargetProp, InitialCameraPosition, orbitTarget, cameraPosition)
  /\ cameraPosition[2] > InitialCameraPosition[2]
  /\ rotationVelocity > 0
  /\ velocity[2] > 0
  /\ velocity[1] = 0 /\ velocity[3] = 0

\* C17 as stated: the default action is suppressed for the ascend key only
C17_OnlyAscendPrevented ==
  event.defaultPrevented => (event.type = "keydown" /\ event.code = "Space")

\* C17: a keydown has its default action suppressed exactly when the handler
\* is attached, the event does not come from a text field and the key is
\* the ascend key (Space) or a sprint key (AltLeft, AltRight); no keyup and
\* no other key has its default suppressed
C17_AscendAndSprintPrevented ==
  /\ [][KeyDownStep =>
          (event'.defaultPrevented <=>
             /\ keydownListeners > 0
             /\ ~IsTextField(event'.tag)
             /\ event'.code \in {"Space", "AltLeft", "AltRight"})]_vars
  /\ [][KeyUpStep => ~event'.defaultPrevented]_vars
  /\ [](event.defaultPrevented =>
          /\ event.type = "keydown"
          /\ event.code \in {"Space", "AltLeft", "AltRight"})

\* C17 witness: a sprint keydown from the page body was suppressed
C17_Witness ==
  /\ event.type = "keydown"
  /\ event.code \in {"AltLeft", "AltRight"}
  /\ event.tag = "BODY"
  /\ event.defaultPrevented
  /\ keysRef["sprint"]

\* C18: a sprint keydown sets the sprint flag and no other flag; while sprint
\* is the only flag held from rest, the direction and the velocity are zero
\* and neither the camera position nor the orbit target changes
C18_SprintAloneIsStill ==
  /\ [][(KeyDownStep /\ event'.code \in {"AltLeft", "AltRight"}) =>
          keysRef' = [keysRef EXCEPT !["sprint"] = TRUE]]_vars
  /\ [](keysRef = [NoKeys EXCEPT !["sprint"] = TRUE] =>
          /\ direction = Zero3
          /\ velocity = Zero3
          /\ moveVector = Zero3
          /\ cameraPosition = InitialCameraPosition
          /\ orbitTarget = TargetProp)

\* C18 witness: sprint alone has been held for a hundred executed ticks
C18_Witness ==
  /\ keysRef = [NoKeys EXCEPT !["sprint"] = TRUE]
  /\ frame >= 100
  /\ idleTicks >= 100
  /\ cameraPosition = InitialCameraPosition

\* C19: a keydown or keyup handler changes nothing but keysRef flags (not the
\* camera position, the orbit target, the velocity, the rotation velocity or
\* any other value the tick keeps), and a frame tick changes no keysRef flag
C19_DisjointOwnership ==
  /\ [][(KeyDownStep \/ KeyUpStep) =>
          UNCHANGED <<cameraPosition, cameraQuaternion, orbitTarget, velocity,
                      rotationVelocity, direction, moveVector, lastFrameTime,
                      rigStale>>]_vars
  /\ [][TickStep => keysRef' = keysRef]_vars

\* C19 witness: a key went down after an executed tick had moved the camera,
\* while the velocity was non-zero
C19_Witness ==
  /\ event.type = "keydown"
  /\ keysRef # NoKeys
  /\ frame >= 1
  /\ velocity # Zero3
  /\ cameraPosition # InitialCameraPosition

HeldFromRest == frame >= 1 /\ keysRef["turnLeft"] /\ keysRef["up"]

\* C21 as stated: the rotation factor is smaller than the translation factor,
\* so the rotation velocity is a smaller fraction of its target 1.5 than
\* velocity.y is of its target 3 after the same number of ticks
C21_RotationSlower ==
  HeldFromRest =>
    /\ RotationLerpPercent < LerpPercent
    /\ 2 * rotationVelocity < velocity[2]

\* C21: the two interpolation factors are equal, and under a constant input
\* held from rest the rotation velocity is the same fraction of its target
\* 1.5 as velocity.y is of its target 3 after every tick (2 * rotationVelocity
\* = velocity.y, exactly after the first tick and to within 30 units of
\* accumulated rounding afterwards)
C21_SameSpinUp ==
  /\ RotationLerpPercent = LerpPercent
  /\ HeldFromRest =>
       /\ Abs(2 * rotationVelocity - velocity[2]) <= 30
       /\ frame = 1 => 2 * rotationVelocity = velocity[2]

\* C21 witness: after 60 ticks of holding both keys from rest both values
\* are past 95% of their targets
C21_Witness ==
  /\ HeldFromRest
  /\ frame >= 60
  /\ 100 * rotationVelocity > 95 * RotationSpeed
  /\ 100 * velocity[2] > 95 * MovementSpeed * VScale

\* what the translation step of the tick just taken added to the camera
\* position (and to the orbit target)
TickTranslation == VecSub(cameraPosition', cameraPosition)

\* the orbit target as the rotation step of the tick just taken left it
TargetAfterRotationStep == VecSub(orbitTarget', TickTranslation)

C23_LevelMovement ==
  [][ExecutedTickStep =>
       /\ Abs(velocity'[2]) <= VelocityDeadband =>
            /\ TickTranslation[2] = 0
            /\ orbitTarget'[2] = orbitTarget[2]
       /\ (/\ Abs(velocity'[2]) > VelocityDeadband
           /\ Abs(velocity'[1]) <= VelocityDeadband
           /\ Abs(velocity'[3]) <= VelocityDeadband) =>
            /\ TickTranslation[1] = 0
            /\ TickTranslation[3] = 0
            /\ TargetAfterRotationStep[1] = orbitTarget'[1]
            /\ TargetAfterRotationStep[3] = orbitTarget'[3]]_vars

\* C23 witness: the camera is pitched down and a tick with forward velocity
\* has moved it horizontally at its initial height
C23_Witness ==
  /\ event.type = "frame"
  /\ cameraQuaternion = 2
  /\ CameraForward(cameraQuaternion)[2] # 0
  /\ Abs(velocity[3]) > VelocityDeadband
  /\ velocity[2] = 0
  /\ cameraPosition[3] # InitialCameraPosition[3]
  /\ cameraPosition[2] = InitialCameraPosition[2]

\* no movement key and no yaw key is held
Released == ~MoveHeld(keysRef) /\ ~keysRef["turnLeft"] /\ ~keysRef["turnRight"]

\* C24: in an executed tick that leaves every velocity component within the
\* deadband the translation step moves neither the camera nor the orbit
\* target and calls no update(); once the movement and yaw keys are
\* released, the velocity is within the deadband after 170 ticks and the
\* 170th and later ticks leave the camera position alone, and the 98th and
\* later ticks no longer rotate the orbit target
C24_NoResidualDrift ==
  /\ [][(ExecutedTickStep /\ \A i \in 1..3 : Abs(velocity'[i]) <= VelocityDeadband) =>
          /\ TickTranslation = Zero3
          /\ TargetAfterRotationStep = orbitTarget'
          /\ updateCalls' = IF Abs(rotationVelocity') > RotationDeadband THEN 1 ELSE 0]_vars
  /\ []((Released /\ idleTicks >= 170) =>
          \A i \in 1..3 : Abs(velocity[i]) <= VelocityDeadband)
  /\ [][(TickStep /\ Released /\ idleTicks >= 169) =>
          cameraPosition' = cameraPosition]_vars
  /\ [][(TickStep /\ Released /\ idleTicks >= 97) =>
          /\ Abs(rotationVelocity') <= RotationDeadband
          /\ TargetAfterRotationStep = orbitTarget]_vars

\* C24 witness: forward, yaw-right and sprint were held for at least 150
\* ticks; 169 ticks after the release the velocity is still above the
\* deadband although the rotation velocity is below its own
C24_Witness ==
  /\ Released
  /\ keysRef["sprint"]
  /\ idleTicks = 169
  /\ frame >= 319
  /\ Abs(velocity[3]) > VelocityDeadband
  /\ rotationVelocity # 0
  /\ Abs(rotationVelocity) <= RotationDeadband
  /\ cameraPosition # InitialCameraPosition

\* C25: the callback calls update() at most once per frame tick, and only
\* when the rig is not auto-rotating
C25_AtMostOneUpdate ==
  event.type = "frame" => (updateCalls <= 1 /\ (updateCalls > 0 => ~AutoRotate))

\* C26: while a VR session is active the debug settings keep showParticles
\* and showGrid false
C26_VRKeepsEffectsOff ==
  isInVR => (~debugSettings.showParticles /\ ~debugSettings.showGrid)

\* C27: a keyup from an INPUT or TEXTAREA element leaves keysRef as it is; a
\* flag that is set is cleared only by a keyup of its key from outside a
\* text field while the handler is attached, or after the listeners were
\* detached; and while a movement flag is set every executed tick has a
\* non-zero direction
C27_KeyUpFocusGuard ==
  /\ [][(KeyUpStep /\ IsTextField(event'.tag)) => keysRef' = keysRef]_vars
  /\ [][\A f \in Flags :
          (keysRef[f] /\ ~keysRef'[f]) =>
            \/ /\ KeyUpStep
               /\ FlagOf(event'.code) = f
               /\ ~IsTextField(event'.tag)
               /\ keyupListeners > 0
            \/ keyupListeners = 0]_vars
  /\ [][(ExecutedTickStep /\ MoveHeld(keysRef)) => direction' # Zero3]_vars

\* C27 witness: the key of a set flag was released inside a text field while
\* the handler was attached, and the flag is still set
C27_Witness ==
  /\ event.type = "keyup"
  /\ IsTextField(event.tag)
  /\ FlagOf(event.code) # "none"
  /\ keysRef[FlagOf(event.code)]
  /\ keyupListeners > 0

\* C28: the descend flag is set exactly when a Shift key is down, and the
\* sprint flag exactly when an Alt key is down
C28_FlagIffAnyHeld ==
  /\ keysRef["down"] <=> heldKeys \cap {"ShiftLeft", "ShiftRight"} # {}
  /\ keysRef["sprint"] <=> heldKeys \cap {"AltLeft", "AltRight"} # {}

\* C29: in an executed tick with two opposing keys held the later test of
\* the callback wins: the direction has z > 0 with W and S, x > 0 with A and
\* D, y < 0 with Space and Shift, and the rotation velocity moves toward
\* -1.5 with Q and E; the rotation velocity moves toward 0 exactly when
\* neither yaw key is held
C29_OpposingKeys ==
  /\ [][ExecutedTickStep =>
          /\ (keysRef["forward"] /\ keysRef["backward"]) => direction'[3] > 0
          /\ (keysRef["left"] /\ keysRef["right"]) => direction'[1] > 0
          /\ (keysRef["up"] /\ keysRef["down"]) => direction'[2] < 0
          /\ (keysRef["turnLeft"] /\ keysRef["turnRight"]) =>
               /\ TargetRotationVelocity(keysRef) = -1
               /\ DampedStep(rotationVelocity, rotationVelocity', -RotationSpeed)
          /\ (TargetRotationVelocity(keysRef) = 0) <=>
               (~keysRef["turnLeft"] /\ ~keysRef["turnRight"])]_vars
  /\ [][(ExecutedTickStep /\ keysRef["forward"] /\ keysRef["backward"]
           /\ \A f \in Flags \ {"forward", "backward", "sprint"} : ~keysRef[f]) =>
          direction' = <<0, 0, UScale>>]_vars

\* C29 witness: W and S are both held and a tick from rest has given the
\* velocity a backward (positive z) component
C29_Witness ==
  /\ event.type = "frame"
  /\ keysRef["forward"] /\ keysRef["backward"]
  /\ direction = <<0, 0, UScale>>
  /\ velocity[3] > 0

\* C30: while Controls is mounted with enableOrbit false no rig is attached;
\* a tick then changes neither the camera position nor the orbit target nor
\* any velocity, although with enableMovement true a keydown of a recognized
\* key from outside a text field still sets its flag
C30_NoRigNoMovement ==
  /\ []((mounted /\ ~enableOrbit) => ~orbitAttached)
  /\ [][(TickStep /\ mounted /\ ~enableOrbit) =>
          UNCHANGED <<cameraPosition, orbitTarget, velocity, rotationVelocity,
                      direction, moveVector, lastFrameTime>>]_vars
  /\ [][(/\ KeyDownStep
         /\ mounted /\ enableMovement /\ ~enableOrbit
         /\ ~IsTextField(event'.tag)
         /\ FlagOf(event'.code) # "none") =>
          keysRef'[FlagOf(event'.code)]]_vars

\* C30 witness: a key is held and the velocity is non-zero from a tick that
\* ran before the rig was removed; the second tick, without the rig, left
\* the velocity and the camera where they were
C30_Witness ==
  /\ event.type = "frame"
  /\ frame = 2
  /\ mounted /\ enableMovement /\ ~enableOrbit
  /\ MoveHeld(keysRef)
  /\ velocity # Zero3
  /\ lastFrameTime < now

====
